---- MODULE Spec2Model ----
(***************************************************************************)
(* SimpleSSEManager (src/src/simple-sse.ts): the HTTP routes of the bridge, *)
(* the JSON-RPC dispatch of POST /sse and the SSE connections of GET /sse. *)
(*                                                                         *)
(* JSON values are written as strings.  A JavaScript property that is not  *)
(* there reads as undefined, so an absent field is the value Undefined.    *)
(***************************************************************************)
EXTENDS Integers, Sequences, FiniteSets, TLC

\* ---------------------------------------------------------------- values

Undefined == "<undefined>"
Null == "<null>"
Zero == "#0"
Seven == "#7"
WorkItem594 == "#594"
EmptyString == ""
ErrorObject == "{code,message}"
WebApi == "WebApi"

\* JavaScript truthiness of a JSON value (the operand of !x, x || y, if (x)).
Truthy(v) == v \notin {Undefined, Null, Zero, EmptyString}

\* x || null
OrNull(v) == IF Truthy(v) THEN v ELSE Null

\* ------------------------------------------------------------ tool table

Methods ==
    {"initialize", "tools/list", "tools/call", "notifications/initialized", "ping", "hello"}

\* The case labels of the tools/call switch.
ToolNames ==
    {"get_work_item", "list_projects", "get_project", "create_work_item",
     "query_work_items", "list_repositories", "get_repository", "search_repository_code"}

ArgFields ==
    {"workItemId", "projectId", "project", "type", "title", "wiql", "repositoryId", "searchText"}

\* The arguments a case of the switch tests with !args.x before it calls the handler.
Checked(tool) ==
    CASE tool = "get_work_item" -> {"workItemId"}
      [] tool = "get_project" -> {"projectId"}
      [] tool = "create_work_item" -> {"project", "type", "title"}
      [] tool = "query_work_items" -> {"wiql"}
      [] tool = "get_repository" -> {"repositoryId"}
      [] tool = "search_repository_code" -> {"searchText"}
      [] OTHER -> {}

\* The fields the message of the thrown Error names: "workItemId is required",
\* "project, type, and title are required", ...
RequiredMessageFields(tool) ==
    CASE tool = "get_work_item" -> {"workItemId"}
      [] tool = "get_project" -> {"projectId"}
      [] tool = "create_work_item" -> {"project", "type", "title"}
      [] tool = "query_work_items" -> {"wiql"}
      [] tool = "get_repository" -> {"repositoryId"}
      [] tool = "search_repository_code" -> {"searchText"}
      [] OTHER -> {}

\* inputSchema.required of the tool's descriptor in the tools/list result.
DeclaredRequired(tool) ==
    CASE tool = "get_work_item" -> {"workItemId"}
      [] tool = "get_project" -> {"projectId"}
      [] tool = "create_work_item" -> {"project", "type", "title"}
      [] tool = "query_work_items" -> {"wiql"}
      [] tool = "get_repository" -> {"repositoryId"}
      [] tool = "search_repository_code" -> {"searchText"}
      [] OTHER -> {}

ListedToolsWithoutStub ==
    {"get_work_item", "list_projects", "get_project", "create_work_item",
     "query_work_items", "list_repositories", "get_repository"}

\* The names of the descriptors in the tools/list result.
ListedTools ==
    {"get_work_item", "list_projects", "get_project", "create_work_item",
     "query_work_items", "list_repositories", "get_repository", "search_repository_code"}

\* The tools array of the tools/list result: name and required fields of each descriptor.
ToolDescriptors == [t \in ListedTools |-> DeclaredRequired(t)]

AdapterCallsSearchesGit(tool) ==
    CASE tool = "get_work_item" -> <<"getWorkItemTrackingApi", "getWorkItem">>
      [] tool = "list_projects" -> <<"getCoreApi", "getProjects">>
      [] tool = "get_project" -> <<"getCoreApi", "getProject">>
      [] tool = "create_work_item" -> <<"getWorkItemTrackingApi", "createWorkItem">>
      [] tool = "query_work_items" -> <<"getWorkItemTrackingApi", "queryByWiql", "getWorkItems">>
      [] tool = "list_repositories" -> <<"getGitApi", "getRepositories">>
      [] tool = "get_repository" -> <<"getGitApi", "getRepository">>
      [] tool = "search_repository_code" -> <<"getGitApi", "getRepository">>
      [] OTHER -> <<>>

\* The awaited adapter calls of each ...Direct method, in order.
AdapterCalls(tool) ==
    CASE tool = "get_work_item" -> <<"getWorkItemTrackingApi", "getWorkItem">>
      [] tool = "list_projects" -> <<"getCoreApi", "getProjects">>
      [] tool = "get_project" -> <<"getCoreApi", "getProject">>
      [] tool = "create_work_item" -> <<"getWorkItemTrackingApi", "createWorkItem">>
      [] tool = "query_work_items" -> <<"getWorkItemTrackingApi", "queryByWiql", "getWorkItems">>
      [] tool = "list_repositories" -> <<"getGitApi", "getRepositories">>
      [] tool = "get_repository" -> <<"getGitApi", "getRepository">>
      [] OTHER -> <<>>

\* ------------------------------------------------------- request bodies

JsonRpcValues == {Undefined, EmptyString, "1.0", "2.0"}
IdValues == {Undefined, Null, Zero, Seven, "a"}
ErrorValues == {Undefined, Null, ErrorObject}
MethodValues == Methods \cup {Undefined, EmptyString, "resources/list"}
NameValues == ToolNames \cup {Undefined, "delete_project"}
ArgValues == {Undefined, Zero, WorkItem594}

NoArguments == [f \in ArgFields |-> Undefined]
NoParams == [name |-> Undefined, arguments |-> NoArguments]

\* params as the tools/call branch reads it: params?.name and params?.arguments || {}.
\* An absent params, an absent arguments and an absent field all read as undefined.
\* The arguments range over the fields the tool's descriptor declares required.
ArgumentsFor(n) ==
    { a \in [ArgFields -> ArgValues] : \A f \in ArgFields \ DeclaredRequired(n) : a[f] = Undefined }

ParamsValues ==
    UNION { { [name |-> n, arguments |-> a] : a \in ArgumentsFor(n) } : n \in NameValues }

\* req.body after express.json(): an object, or nothing.
NoBody ==
    [absent |-> TRUE, jsonrpc |-> Undefined, id |-> Undefined, error |-> Undefined,
     method |-> Undefined, params |-> NoParams]

Bodies ==
    { [absent |-> FALSE, jsonrpc |-> j, id |-> i, error |-> e, method |-> m, params |-> p] :
        j \in JsonRpcValues, i \in IdValues, e \in ErrorValues,
        m \in MethodValues \ {"tools/call"}, p \in {NoParams} }
    \cup
    { [absent |-> FALSE, jsonrpc |-> j, id |-> i, error |-> e, method |-> "tools/call", params |-> p] :
        j \in JsonRpcValues, i \in IdValues, e \in ErrorValues, p \in ParamsValues }
    \cup
    { [absent |-> FALSE, jsonrpc |-> "2.0", id |-> i, error |-> Undefined, method |-> m,
       params |-> [name |-> "get_work_item",
                   arguments |-> [NoArguments EXCEPT !["workItemId"] = WorkItem594]]] :
        i \in IdValues, m \in {"notifications/initialized", "ping", "hello"} }
    \cup {NoBody}

\* ------------------------------------------------------------ envelopes

\* res.json(obj): JSON.stringify leaves out a key whose value is undefined.
\* Of the keys of an envelope only id can be undefined.
ToJson(obj) ==
    IF obj.id = Undefined THEN [k \in DOMAIN obj \ {"id"} |-> obj[k]] ELSE obj

\* The value a reader of the JSON text finds under key k.
Get(obj, k) == IF k \in DOMAIN obj THEN obj[k] ELSE Undefined

ResultEnvelope(id, result) == [jsonrpc |-> "2.0", id |-> id, result |-> result]

ErrorEnvelope(id, code, message) ==
    [jsonrpc |-> "2.0", id |-> id, error |-> [code |-> code, message |-> message]]

ErrorEnvelopeData(id, code, message, data) ==
    [jsonrpc |-> "2.0", id |-> id,
     error |-> [code |-> code, message |-> message, data |-> data]]

HttpJson(status, obj) == [status |-> status, kind |-> "json", body |-> ToJson(obj)]

NoResponse == [status |-> 0, kind |-> "none", body |-> <<>>]

\* ------------------------------------------------- POST /sse: the checks

\* if (!mcpRequest || !mcpRequest.jsonrpc)
InvalidFormat(mcpRequest) == mcpRequest.absent \/ ~Truthy(mcpRequest.jsonrpc)

InvalidRequestResponse(mcpRequest) ==
    HttpJson(400, ErrorEnvelope(OrNull(mcpRequest.id), -32600, "Invalid Request"))

ClientSentErrorUnlessMethod(mcpRequest) ==
    Truthy(mcpRequest.error) /\ ~Truthy(mcpRequest.method)

\* if (mcpRequest.error)
ClientSentError(mcpRequest) == Truthy(mcpRequest.error)

AcknowledgeResponseBare(mcpRequest) ==
    HttpJson(200, [jsonrpc |-> "2.0", id |-> mcpRequest.id, acknowledged |-> TRUE])

AcknowledgeResponse(mcpRequest) ==
    HttpJson(200, ResultEnvelope(mcpRequest.id, [acknowledged |-> TRUE]))

\* if (!mcpRequest.method)
MethodMissing(mcpRequest) == ~Truthy(mcpRequest.method)

MissingMethodResponse200(mcpRequest) ==
    HttpJson(200, ErrorEnvelope(OrNull(mcpRequest.id), -32600, "Missing method"))

MissingMethodResponse(mcpRequest) ==
    HttpJson(400, ErrorEnvelope(OrNull(mcpRequest.id), -32600, "Missing method"))

\* The outer catch.
InternalErrorResponse(body) ==
    HttpJson(500, ErrorEnvelope(OrNull(body.id), -32603, "Internal error"))

\* The request goes on to the if / else-if chain on mcpRequest.method.
ReachesDispatch(mcpRequest) ==
    ~InvalidFormat(mcpRequest) /\ ~ClientSentError(mcpRequest) /\ ~MethodMissing(mcpRequest)

\* --------------------------------------------- POST /sse: method branches

InitializeResult ==
    [protocolVersion |-> "2024-11-05",
     capabilities |-> [tools |-> <<>>, transport |-> [name |-> "streamable-https", supported |-> TRUE]],
     serverInfo |-> [name |-> "azure-devops-mcp-simple", version |-> "1.0.0",
                     transport |-> "streamable-https"]]

ToolsListResultFirstOnly == [tools |-> [t \in {"get_work_item"} |-> DeclaredRequired(t)]]

ToolsListResult == [tools |-> ToolDescriptors]

HelloResult ==
    [serverName |-> "azure-devops-mcp-simple", serverVersion |-> "1.0.0",
     transport |-> "streamable-https"]

\* new Date().toISOString() of the ping branch; the clock is not part of this model.
PingResult == [timestamp |-> "now"]

MethodNotFoundResponseOrNull(mcpRequest) ==
    HttpJson(200, ErrorEnvelope(OrNull(mcpRequest.id), -32601, "Method not found"))

MethodNotFoundResponse(mcpRequest) ==
    HttpJson(200, ErrorEnvelope(mcpRequest.id, -32601, "Method not found"))

BranchResponseHelloLast(mcpRequest) ==
    CASE mcpRequest.method = "initialize" ->
            HttpJson(200, ResultEnvelope(mcpRequest.id, InitializeResult))
      [] mcpRequest.method = "tools/list" ->
            HttpJson(200, ResultEnvelope(mcpRequest.id, ToolsListResult))
      [] mcpRequest.method = "notifications/initialized" ->
            HttpJson(200, ResultEnvelope(mcpRequest.id, <<>>))
      [] mcpRequest.method = "ping" ->
            HttpJson(200, ResultEnvelope(mcpRequest.id, PingResult))
      [] OTHER -> HttpJson(200, ResultEnvelope(mcpRequest.id, HelloResult))

BranchResponsePingNeedsId(mcpRequest) ==
    CASE mcpRequest.method = "initialize" ->
            HttpJson(200, ResultEnvelope(mcpRequest.id, InitializeResult))
      [] mcpRequest.method = "tools/list" ->
            HttpJson(200, ResultEnvelope(mcpRequest.id, ToolsListResult))
      [] mcpRequest.method = "notifications/initialized" ->
            HttpJson(200, ResultEnvelope(mcpRequest.id, <<>>))
      [] mcpRequest.method = "ping" /\ Truthy(mcpRequest.id) ->
            HttpJson(200, ResultEnvelope(mcpRequest.id, PingResult))
      [] mcpRequest.method = "hello" ->
            HttpJson(200, ResultEnvelope(mcpRequest.id, HelloResult))
      [] OTHER -> MethodNotFoundResponse(mcpRequest)

\* The branches that build their response without awaiting anything.
BranchResponse(mcpRequest) ==
    CASE mcpRequest.method = "initialize" ->
            HttpJson(200, ResultEnvelope(mcpRequest.id, InitializeResult))
      [] mcpRequest.method = "tools/list" ->
            HttpJson(200, ResultEnvelope(mcpRequest.id, ToolsListResult))
      [] mcpRequest.method = "notifications/initialized" ->
            HttpJson(200, ResultEnvelope(mcpRequest.id, <<>>))
      [] mcpRequest.method = "ping" ->
            HttpJson(200, ResultEnvelope(mcpRequest.id, PingResult))
      [] mcpRequest.method = "hello" ->
            HttpJson(200, ResultEnvelope(mcpRequest.id, HelloResult))
      [] OTHER -> MethodNotFoundResponse(mcpRequest)

\* ------------------------------------------------- POST /sse: tools/call

\* const toolName = mcpRequest.params?.name
toolName(mcpRequest) == mcpRequest.params.name

\* const args = mcpRequest.params?.arguments || {}
args(mcpRequest) == mcpRequest.params.arguments

\* error.message of the errors the switch and the ...Direct methods throw.
RequiredMessage(tool) ==
    [text |-> "is required", tool |-> tool, names |-> RequiredMessageFields(tool), cause |-> "none"]

NotSupportedMessage(name) ==
    [text |-> "Tool not supported", tool |-> name, names |-> {}, cause |-> "none"]

NotInitializedMessage ==
    [text |-> "Azure DevOps connection not initialized", tool |-> "none", names |-> {},
     cause |-> "none"]

FailedMessage(tool, cause) ==
    [text |-> "Failed to", tool |-> tool, names |-> {}, cause |-> cause]

\* The text a ...Direct method returns.
ResultText(tool, form) == [tool |-> tool, form |-> form]

\* The catch of the tools/call branch.
ToolErrorResponse(mcpRequest, message) ==
    HttpJson(200, ErrorEnvelopeData(mcpRequest.id, -32603, "Internal error executing tool", message))

ToolResultResponse(mcpRequest, result) ==
    HttpJson(200, ResultEnvelope(mcpRequest.id, [content |-> << [type |-> "text", text |-> result] >>]))

ArgumentMissingFirstOnly(mcpRequest) ==
    LET tool == toolName(mcpRequest) IN
    IF tool = "create_work_item" THEN ~Truthy(args(mcpRequest)["project"])
    ELSE \E f \in Checked(tool) : ~Truthy(args(mcpRequest)[f])

\* A case of the switch throws before it calls its ...Direct method.
ArgumentMissing(mcpRequest) ==
    \E f \in Checked(toolName(mcpRequest)) : ~Truthy(args(mcpRequest)[f])

\* The ...Direct method of the case is called.
CallsHandler(mcpRequest) ==
    toolName(mcpRequest) \in ToolNames /\ ~ArgumentMissing(mcpRequest)

\* The ...Direct method gets past if (!this.azureConnection) and awaits the adapter.
AwaitsAdapter(mcpRequest, connection) ==
    /\ CallsHandler(mcpRequest)
    /\ connection # Null
    /\ AdapterCalls(toolName(mcpRequest)) # <<>>

ToolsCallResponseNotFound(mcpRequest, connection) ==
    IF toolName(mcpRequest) \notin ToolNames
    THEN MethodNotFoundResponse(mcpRequest)
    ELSE IF ArgumentMissing(mcpRequest)
    THEN ToolErrorResponse(mcpRequest, RequiredMessage(toolName(mcpRequest)))
    ELSE IF connection = Null
    THEN ToolErrorResponse(mcpRequest, NotInitializedMessage)
    ELSE ToolResultResponse(mcpRequest, ResultText(toolName(mcpRequest), "placeholder"))

\* The response of a tools/call that ends without awaiting the adapter.
ToolsCallResponse(mcpRequest, connection) ==
    IF toolName(mcpRequest) \notin ToolNames
    THEN ToolErrorResponse(mcpRequest, NotSupportedMessage(toolName(mcpRequest)))
    ELSE IF ArgumentMissing(mcpRequest)
    THEN ToolErrorResponse(mcpRequest, RequiredMessage(toolName(mcpRequest)))
    ELSE IF connection = Null
    THEN ToolErrorResponse(mcpRequest, NotInitializedMessage)
    ELSE ToolResultResponse(mcpRequest, ResultText(toolName(mcpRequest), "placeholder"))

\* What an awaited adapter call can do: resolve with data, resolve with nothing
\* (null, or an empty list), or reject.
ApiGetters == {"getWorkItemTrackingApi", "getCoreApi", "getGitApi"}

Outcomes(call) ==
    IF call \in ApiGetters \cup {"getWorkItems"} THEN {"value", "throws"}
    ELSE {"value", "empty", "throws"}

\* The text returned for a call that resolved with nothing; createWorkItem throws instead.
EmptyForm(call) ==
    CASE call \in {"getWorkItem", "getProject", "getRepository"} -> "not found"
      [] call \in {"getProjects", "getRepositories"} -> "none found"
      [] call = "queryByWiql" -> "no work items found"
      [] OTHER -> "throws"

\* The response the POST handler sends when it ends: the one it built, or the one
\* of the outer catch when an exception escaped on the way.
Sent(mcpRequest, response, thrown) ==
    IF thrown THEN InternalErrorResponse(mcpRequest) ELSE response

PostResponseErrorFirst(mcpRequest, connection) ==
    IF ClientSentError(mcpRequest) THEN AcknowledgeResponse(mcpRequest)
    ELSE IF InvalidFormat(mcpRequest) THEN InvalidRequestResponse(mcpRequest)
    ELSE IF MethodMissing(mcpRequest) THEN MissingMethodResponse(mcpRequest)
    ELSE IF mcpRequest.method = "tools/call" THEN ToolsCallResponse(mcpRequest, connection)
    ELSE BranchResponse(mcpRequest)

\* The POST handler up to its first await of the adapter, or to its end.
PostResponse(mcpRequest, connection) ==
    IF InvalidFormat(mcpRequest) THEN InvalidRequestResponse(mcpRequest)
    ELSE IF ClientSentError(mcpRequest) THEN AcknowledgeResponse(mcpRequest)
    ELSE IF MethodMissing(mcpRequest) THEN MissingMethodResponse(mcpRequest)
    ELSE IF mcpRequest.method = "tools/call" THEN ToolsCallResponse(mcpRequest, connection)
    ELSE BranchResponse(mcpRequest)

\* The branch of the if / else-if chain the request enters, "none" when it is answered before.
Branch(mcpRequest) ==
    IF ~ReachesDispatch(mcpRequest) THEN "none"
    ELSE IF mcpRequest.method \in Methods THEN mcpRequest.method
    ELSE "else"

Suspends(mcpRequest, connection) ==
    /\ ReachesDispatch(mcpRequest)
    /\ mcpRequest.method = "tools/call"
    /\ AwaitsAdapter(mcpRequest, connection)

\* --------------------------------------------------------------- routes

Verbs == {"GET", "POST", "OPTIONS"}
Paths == {"/sse", "/message", "/health", "/"}

\* The middleware and routes of setupRoutes in registration order; express answers
\* 404 when none matches.
Route(verb, path) ==
    IF verb = "OPTIONS" THEN "cors preflight"
    ELSE IF verb = "GET" /\ path = "/health" THEN "GET /health"
    ELSE IF verb = "GET" /\ path = "/sse" THEN "GET /sse"
    ELSE IF verb = "POST" /\ path = "/sse" THEN "POST /sse"
    ELSE IF verb = "GET" /\ path = "/" THEN "GET /"
    ELSE "not found"

\* ---------------------------------------------------------------- bounds

MaxInFlight == 2
MaxConnections == 2
MaxHeartbeats == 1
MaxClock == 1
MaxRandom == 2

Slots == 1 .. MaxInFlight
Connections == 1 .. MaxConnections

\* ----------------------------------------------------------------- state

VARIABLES
    azureConnection,   \* this.azureConnection: Null, or the WebApi built from the credentials
    requests,          \* the HTTP requests being handled, other than GET /sse, by slot
    connections,       \* the GET /sse connections: sessionId, what was written, the timer
    now,               \* Date.now()
    server,            \* this.server: Null, then listening, closing (stop() called), closed
    handshake          \* history: an initialize or notifications/initialized request has
                       \* been handled; the code keeps no such state

vars == <<azureConnection, requests, connections, now, server, handshake>>

\* A slot that holds no request.
Idle ==
    [state |-> "idle", verb |-> "none", path |-> "none", query |-> Undefined, body |-> NoBody,
     invoked |-> "none", calls |-> <<>>, outcomes |-> <<>>, response |-> NoResponse,
     thrown |-> FALSE, handshake |-> FALSE, disconnected |-> FALSE]

\* A GET /sse that has not arrived yet.
NotConnected ==
    [state |-> "none", sessionId |-> Undefined, stream |-> <<>>, heartbeat |-> FALSE,
     failed |-> FALSE]

\* initializeAzureConnection: the connection is built only when both credentials are set.
Init ==
    /\ azureConnection \in {Null, WebApi}
    /\ requests = [s \in Slots |-> Idle]
    /\ connections = [c \in Connections |-> NotConnected]
    /\ now = 0
    /\ server = Null
    /\ handshake = FALSE

\* start(): this.server = this.app.listen(port, host).
Start ==
    /\ server = Null
    /\ server' = "listening"
    /\ UNCHANGED <<azureConnection, requests, connections, now, handshake>>

\* A new HTTP request can reach a route only while the server listens.
Accepting == server = "listening"

\* ------------------------------------------------------------ POST /sse

PostSseChecksSession(s, query, body, thrown) ==
    /\ Accepting
    /\ requests[s].state = "idle"
    /\ LET known == \E c \in Connections :
                       connections[c].state = "open" /\ connections[c].sessionId = query
           suspends == known /\ Suspends(body, azureConnection)
           tool == toolName(body)
       IN requests' = [requests EXCEPT ![s] =
            [state |-> IF suspends THEN "awaiting" ELSE "answered",
             verb |-> "POST", path |-> "/sse", query |-> query, body |-> body,
             invoked |-> IF known /\ Branch(body) = "tools/call" /\ CallsHandler(body)
                         THEN tool ELSE "none",
             calls |-> IF suspends THEN << AdapterCalls(tool)[1] >> ELSE <<>>,
             outcomes |-> <<>>,
             response |-> IF suspends THEN NoResponse
                          ELSE IF ~known THEN InvalidRequestResponse(body)
                          ELSE Sent(body, PostResponse(body, azureConnection), thrown),
             thrown |-> ~suspends /\ thrown,
             handshake |-> handshake, disconnected |-> FALSE]]
    /\ handshake' = (handshake \/ Branch(body) \in {"initialize", "notifications/initialized"})
    /\ UNCHANGED <<azureConnection, connections, now, server>>

PostSseGated(s, query, body, thrown) ==
    /\ Accepting
    /\ requests[s].state = "idle"
    /\ LET open == handshake \/ Branch(body) # "tools/call"
           suspends == open /\ Suspends(body, azureConnection)
           tool == toolName(body)
       IN requests' = [requests EXCEPT ![s] =
            [state |-> IF suspends THEN "awaiting" ELSE "answered",
             verb |-> "POST", path |-> "/sse", query |-> query, body |-> body,
             invoked |-> IF open /\ Branch(body) = "tools/call" /\ CallsHandler(body)
                         THEN tool ELSE "none",
             calls |-> IF suspends THEN << AdapterCalls(tool)[1] >> ELSE <<>>,
             outcomes |-> <<>>,
             response |-> IF suspends THEN NoResponse
                          ELSE IF ~open THEN InvalidRequestResponse(body)
                          ELSE Sent(body, PostResponse(body, azureConnection), thrown),
             thrown |-> ~suspends /\ thrown,
             handshake |-> handshake, disconnected |-> FALSE]]
    /\ handshake' = (handshake \/ Branch(body) \in {"initialize", "notifications/initialized"})
    /\ UNCHANGED <<azureConnection, connections, now, server>>

\* A POST /sse arrives and its handler runs to its first await of the adapter, or to
\* its end.  invoked is the ...Direct method the handler called, calls the adapter
\* calls it made, outcomes how each of them settled.  thrown is the environment's
\* choice that a statement of the outer try outside the tools/call try (the send of
\* the response) throws, which is what takes the handler to the outer catch.  The
\* handshake field is the history variable as it was when the request arrived;
\* disconnected is whether the client's socket has gone since.
PostSse(s, query, body, thrown) ==
    /\ Accepting
    /\ requests[s].state = "idle"
    /\ LET suspends == Suspends(body, azureConnection)
           tool == toolName(body)
       IN requests' = [requests EXCEPT ![s] =
            [state |-> IF suspends THEN "awaiting" ELSE "answered",
             verb |-> "POST", path |-> "/sse", query |-> query, body |-> body,
             invoked |-> IF Branch(body) = "tools/call" /\ CallsHandler(body)
                         THEN tool ELSE "none",
             calls |-> IF suspends THEN << AdapterCalls(tool)[1] >> ELSE <<>>,
             outcomes |-> <<>>,
             response |-> IF suspends THEN NoResponse
                          ELSE Sent(body, PostResponse(body, azureConnection), thrown),
             thrown |-> ~suspends /\ thrown,
             handshake |-> handshake, disconnected |-> FALSE]]
    /\ handshake' = (handshake \/ Branch(body) \in {"initialize", "notifications/initialized"})
    /\ UNCHANGED <<azureConnection, connections, now, server>>

AfterAdapterSwallows(mcpRequest, call, outcome, last) ==
    LET tool == toolName(mcpRequest) IN
    CASE outcome = "throws" ->
            ToolResultResponse(mcpRequest, ResultText(tool, "none found"))
      [] outcome = "empty" /\ EmptyForm(call) = "throws" ->
            ToolErrorResponse(mcpRequest, FailedMessage(tool, "Failed to create work item"))
      [] outcome = "empty" /\ EmptyForm(call) # "throws" ->
            ToolResultResponse(mcpRequest, ResultText(tool, EmptyForm(call)))
      [] outcome = "value" /\ last ->
            ToolResultResponse(mcpRequest, ResultText(tool, "found"))
      [] OTHER -> NoResponse

\* The response of a handler whose awaited adapter call settled, none while it goes
\* on to its next adapter call.
AfterAdapter(mcpRequest, call, outcome, last) ==
    LET tool == toolName(mcpRequest) IN
    CASE outcome = "throws" ->
            ToolErrorResponse(mcpRequest, FailedMessage(tool, "adapter error"))
      [] outcome = "empty" /\ EmptyForm(call) = "throws" ->
            ToolErrorResponse(mcpRequest, FailedMessage(tool, "Failed to create work item"))
      [] outcome = "empty" /\ EmptyForm(call) # "throws" ->
            ToolResultResponse(mcpRequest, ResultText(tool, EmptyForm(call)))
      [] outcome = "value" /\ last ->
            ToolResultResponse(mcpRequest, ResultText(tool, "found"))
      [] OTHER -> NoResponse

AdapterReturnsInOrder(s, outcome, thrown) ==
    /\ requests[s].state = "awaiting"
    /\ \A t \in Slots : t < s => requests[t].state # "awaiting"
    /\ LET r == requests[s]
           sequence == AdapterCalls(toolName(r.body))
           i == Len(r.calls)
           response == AfterAdapter(r.body, sequence[i], outcome, i = Len(sequence))
       IN /\ outcome \in Outcomes(sequence[i])
          /\ requests' = [requests EXCEPT ![s] =
               IF response.kind = "none"
               THEN [r EXCEPT !.calls = Append(r.calls, sequence[i + 1]),
                              !.outcomes = Append(r.outcomes, outcome)]
               ELSE [r EXCEPT !.state = "answered",
                              !.outcomes = Append(r.outcomes, outcome),
                              !.response = Sent(r.body, response, thrown),
                              !.thrown = thrown]]
    /\ UNCHANGED <<azureConnection, connections, now, server, handshake>>

AdapterReturnsUnlessGone(s, outcome, thrown) ==
    /\ requests[s].state = "awaiting"
    /\ ~requests[s].disconnected
    /\ LET r == requests[s]
           sequence == AdapterCalls(toolName(r.body))
           i == Len(r.calls)
           response == AfterAdapter(r.body, sequence[i], outcome, i = Len(sequence))
       IN /\ outcome \in Outcomes(sequence[i])
          /\ requests' = [requests EXCEPT ![s] =
               IF response.kind = "none"
               THEN [r EXCEPT !.calls = Append(r.calls, sequence[i + 1]),
                              !.outcomes = Append(r.outcomes, outcome)]
               ELSE [r EXCEPT !.state = "answered",
                              !.outcomes = Append(r.outcomes, outcome),
                              !.response = Sent(r.body, response, thrown),
                              !.thrown = thrown]]
    /\ UNCHANGED <<azureConnection, connections, now, server, handshake>>

AdapterReturnsRetries(s, outcome, thrown) ==
    /\ requests[s].state = "awaiting"
    /\ LET r == requests[s]
           sequence == AdapterCalls(toolName(r.body))
           i == Len(r.calls)
           response == AfterAdapter(r.body, sequence[i], outcome, i = Len(sequence))
       IN /\ outcome \in Outcomes(sequence[i])
          /\ requests' = [requests EXCEPT ![s] =
               IF outcome = "throws" /\ ~(\E k \in DOMAIN r.outcomes : r.outcomes[k] = "throws")
               THEN [r EXCEPT !.outcomes = Append(r.outcomes, outcome)]
               ELSE IF response.kind = "none"
               THEN [r EXCEPT !.calls = Append(r.calls, sequence[i + 1]),
                              !.outcomes = Append(r.outcomes, outcome)]
               ELSE [r EXCEPT !.state = "answered",
                              !.outcomes = Append(r.outcomes, outcome),
                              !.response = Sent(r.body, response, thrown),
                              !.thrown = thrown]]
    /\ UNCHANGED <<azureConnection, connections, now, server, handshake>>

AdapterReturnsSilentOnFailure(s, outcome, thrown) ==
    /\ requests[s].state = "awaiting"
    /\ LET r == requests[s]
           sequence == AdapterCalls(toolName(r.body))
           i == Len(r.calls)
           response == AfterAdapter(r.body, sequence[i], outcome, i = Len(sequence))
       IN /\ outcome \in Outcomes(sequence[i])
          /\ requests' = [requests EXCEPT ![s] =
               IF response.kind = "none"
               THEN [r EXCEPT !.calls = Append(r.calls, sequence[i + 1]),
                              !.outcomes = Append(r.outcomes, outcome)]
               ELSE [r EXCEPT !.state = "answered",
                              !.outcomes = Append(r.outcomes, outcome),
                              !.response = IF outcome = "throws" THEN NoResponse
                                           ELSE Sent(r.body, response, thrown),
                              !.thrown = thrown]]
    /\ UNCHANGED <<azureConnection, connections, now, server, handshake>>

\* The adapter call a handler awaits settles and the handler resumes.
AdapterReturns(s, outcome, thrown) ==
    /\ requests[s].state = "awaiting"
    /\ LET r == requests[s]
           sequence == AdapterCalls(toolName(r.body))
           i == Len(r.calls)
           response == AfterAdapter(r.body, sequence[i], outcome, i = Len(sequence))
       IN /\ outcome \in Outcomes(sequence[i])
          /\ requests' = [requests EXCEPT ![s] =
               IF response.kind = "none"
               THEN [r EXCEPT !.calls = Append(r.calls, sequence[i + 1]),
                              !.outcomes = Append(r.outcomes, outcome)]
               ELSE [r EXCEPT !.state = "answered",
                              !.outcomes = Append(r.outcomes, outcome),
                              !.response = Sent(r.body, response, thrown),
                              !.thrown = thrown]]
    /\ UNCHANGED <<azureConnection, connections, now, server, handshake>>

\* The client of a request whose handler awaits the adapter goes away.  The handler
\* has no listener for it: it resumes as for any request, and what it then writes
\* to the destroyed response is dropped without an exception.
ClientDisconnects(s) ==
    /\ requests[s].state = "awaiting"
    /\ ~requests[s].disconnected
    /\ requests' = [requests EXCEPT ![s].disconnected = TRUE]
    /\ UNCHANGED <<azureConnection, connections, now, server, handshake>>

\* ---------------------------------------------------------- other routes

Answered(verb, path, query, body, response) ==
    [state |-> "answered", verb |-> verb, path |-> path, query |-> query, body |-> body,
     invoked |-> "none", calls |-> <<>>, outcomes |-> <<>>, response |-> response,
     thrown |-> FALSE, handshake |-> FALSE, disconnected |-> FALSE]

\* The CORS middleware: res.sendStatus(200) for OPTIONS, whatever the path.
CorsPreflight(s, path) ==
    /\ Accepting
    /\ requests[s].state = "idle"
    /\ requests' = [requests EXCEPT ![s] =
         Answered("OPTIONS", path, Undefined, NoBody,
                  [status |-> 200, kind |-> "text", body |-> "OK"])]
    /\ UNCHANGED <<azureConnection, connections, now, server, handshake>>

GetHealth(s) ==
    /\ Accepting
    /\ requests[s].state = "idle"
    /\ requests' = [requests EXCEPT ![s] =
         Answered("GET", "/health", Undefined, NoBody,
                  [status |-> 200, kind |-> "json",
                   body |-> [status |-> "healthy", timestamp |-> "now",
                             service |-> "azure-devops-mcp-simple"]])]
    /\ UNCHANGED <<azureConnection, connections, now, server, handshake>>

\* The tools array of the root endpoint.
RootTools ==
    {"get_work_item", "list_projects", "get_project", "create_work_item",
     "query_work_items", "list_repositories", "get_repository", "search_repository_code"}

GetRoot(s) ==
    /\ Accepting
    /\ requests[s].state = "idle"
    /\ requests' = [requests EXCEPT ![s] =
         Answered("GET", "/", Undefined, NoBody,
                  [status |-> 200, kind |-> "json",
                   body |-> [service |-> "Azure DevOps MCP Server (Simple)",
                             endpoints |-> [health |-> "/health", sse |-> "/sse"],
                             tools |-> RootTools, timestamp |-> "now"]])]
    /\ UNCHANGED <<azureConnection, connections, now, server, handshake>>

\* No route matches: express answers 404 with its own page, and no handler runs.
NotFound(s, verb, path, query, body) ==
    /\ Accepting
    /\ requests[s].state = "idle"
    /\ Route(verb, path) = "not found"
    /\ requests' = [requests EXCEPT ![s] =
         Answered(verb, path, query, body,
                  [status |-> 404, kind |-> "html", body |-> "Cannot " \o verb \o " " \o path])]
    /\ UNCHANGED <<azureConnection, connections, now, server, handshake>>

\* The response has been sent and the handler has returned: the exchange is over.
Finish(s) ==
    /\ requests[s].state = "answered"
    /\ requests' = [requests EXCEPT ![s] = Idle]
    /\ UNCHANGED <<azureConnection, connections, now, server, handshake>>

\* -------------------------------------------------------------- GET /sse

SessionIdRandomOnly(random, time) == ToString(random)

\* Math.random().toString(36).substring(2) + '-' + Date.now().toString(36)
SessionId(random, time) == ToString(random) \o "-" \o ToString(time)

\* The data line of the endpoint event.
EndpointPath(sessionId) == "/message?sessionId=" \o sessionId

EndpointEvent(sessionId) == [event |-> "endpoint", data |-> EndpointPath(sessionId)]

\* event: message, with the JSON text of helloMessage (its id is hello-<Date.now()>).
HelloEvent(sessionId, time) ==
    [event |-> "message",
     data |-> [jsonrpc |-> "2.0", method |-> "hello",
               params |-> [sessionId |-> sessionId, serverName |-> "azure-devops-mcp-simple",
                           serverVersion |-> "1.0.0"],
               id |-> "hello-" \o ToString(time)]]

\* The comment line the timer writes.
HeartbeatLine == [event |-> "comment", data |-> "heartbeat"]

GetSseHelloFirst(c, random) ==
    /\ Accepting
    /\ connections[c].state = "none"
    /\ LET sessionId == SessionId(random, now)
       IN connections' = [connections EXCEPT ![c] =
            [state |-> "open", sessionId |-> sessionId,
             stream |-> << HelloEvent(sessionId, now), EndpointEvent(sessionId) >>,
             heartbeat |-> TRUE, failed |-> FALSE]]
    /\ UNCHANGED <<azureConnection, requests, now, server, handshake>>

\* The GET /sse handler: the id, the two events, the timer, the close listener.
GetSse(c, random) ==
    /\ Accepting
    /\ connections[c].state = "none"
    /\ LET sessionId == SessionId(random, now)
       IN connections' = [connections EXCEPT ![c] =
            [state |-> "open", sessionId |-> sessionId,
             stream |-> << EndpointEvent(sessionId), HelloEvent(sessionId, now) >>,
             heartbeat |-> TRUE, failed |-> FALSE]]
    /\ UNCHANGED <<azureConnection, requests, now, server, handshake>>

Heartbeats(stream) == Len(SelectSeq(stream, LAMBDA e : e.event = "comment"))

HeartbeatFiresKeepsTimer(c, writeThrows) ==
    /\ connections[c].heartbeat
    /\ Heartbeats(connections[c].stream) < MaxHeartbeats
    /\ connections' = [connections EXCEPT ![c] =
         IF writeThrows THEN [@ EXCEPT !.failed = TRUE]
         ELSE [@ EXCEPT !.stream = Append(@, HeartbeatLine)]]
    /\ UNCHANGED <<azureConnection, requests, now, server, handshake>>

\* The setInterval callback: res.write, and clearInterval when the write throws.
\* heartbeat is whether the timer is active, failed whether a write has thrown.
HeartbeatFires(c, writeThrows) ==
    /\ connections[c].heartbeat
    /\ Heartbeats(connections[c].stream) < MaxHeartbeats
    /\ connections' = [connections EXCEPT ![c] =
         IF writeThrows THEN [@ EXCEPT !.heartbeat = FALSE, !.failed = TRUE]
         ELSE [@ EXCEPT !.stream = Append(@, HeartbeatLine)]]
    /\ UNCHANGED <<azureConnection, requests, now, server, handshake>>

CloseHandlerKeepsTimer(connection) == [connection EXCEPT !.state = "closed"]

CloseHandlerIfTimerActive(connection) ==
    IF connection.heartbeat
    THEN [connection EXCEPT !.state = "closed", !.heartbeat = FALSE]
    ELSE connection

\* The close listener: clearInterval(heartbeat), which does nothing to a timer that
\* is already cleared.
CloseHandler(connection) == [connection EXCEPT !.state = "closed", !.heartbeat = FALSE]

ConnectionClosesSharedTimer(c) ==
    /\ connections[c].state = "open"
    /\ connections' = [d \in Connections |->
         IF d = c THEN CloseHandler(connections[d])
         ELSE [connections[d] EXCEPT !.heartbeat = FALSE]]
    /\ UNCHANGED <<azureConnection, requests, now, server, handshake>>

\* req.on('close'): the client's connection ends and the listener runs.
ConnectionCloses(c) ==
    /\ connections[c].state = "open"
    /\ connections' = [connections EXCEPT ![c] = CloseHandler(@)]
    /\ UNCHANGED <<azureConnection, requests, now, server, handshake>>

\* stop(): this.server.close(callback).  The server stops accepting connections;
\* nothing is done to the connections it has.
Stop ==
    /\ server = "listening"
    /\ server' = "closing"
    /\ UNCHANGED <<azureConnection, requests, connections, now, handshake>>

\* The callback of server.close runs once every connection has ended, and resolves
\* the promise stop() returned.
ServerClosed ==
    /\ server = "closing"
    /\ \A c \in Connections : connections[c].state # "open"
    /\ \A s \in Slots : requests[s].state = "idle"
    /\ server' = "closed"
    /\ UNCHANGED <<azureConnection, requests, connections, now, handshake>>

\* The clock advances.
Tick ==
    /\ now < MaxClock
    /\ now' = now + 1
    /\ UNCHANGED <<azureConnection, requests, connections, server, handshake>>

\* ------------------------------------------------------- specifications

\* Requests used where the body is not what is examined.
SampleBodies ==
    { [absent |-> FALSE, jsonrpc |-> "2.0", id |-> Seven, error |-> Undefined,
       method |-> "ping", params |-> NoParams],
      [absent |-> FALSE, jsonrpc |-> "2.0", id |-> "get-workitem-594", error |-> Undefined,
       method |-> "tools/call",
       params |-> [name |-> "get_work_item",
                   arguments |-> [NoArguments EXCEPT !["workItemId"] = WorkItem594]]] }

\* The dispatcher: one client that sends one request at a time, over every body.
Next ==
    \/ Start
    \/ /\ requests[1].state = "idle"
       /\ \E body \in Bodies, thrown \in BOOLEAN : PostSse(1, Undefined, body, thrown)
    \/ \E outcome \in {"value", "empty", "throws"}, thrown \in BOOLEAN :
          AdapterReturns(1, outcome, thrown)
    \/ \E path \in Paths : CorsPreflight(1, path)
    \/ GetHealth(1)
    \/ GetRoot(1)
    \/ \E verb \in Verbs, path \in Paths, body \in SampleBodies :
          NotFound(1, verb, path, Undefined, body)
    \/ Finish(1)

Spec == Init /\ [][Next]_vars

\* The sessionId a client can put in the query of its POST: none, the one of a
\* connection, or one no connection was given.
QueryValues == {Undefined, "0-0"} \cup { connections[c].sessionId : c \in Connections }

\* What the client of the bridge posts: the sample requests and a tools/list.
BridgeBodies ==
    SampleBodies \cup
    { [absent |-> FALSE, jsonrpc |-> "2.0", id |-> Zero, error |-> Undefined,
       method |-> "tools/list", params |-> NoParams] }

\* The bridge: one client that opens an SSE connection and posts to /sse or to the
\* path the endpoint event announced.
NextBridge ==
    \/ Start
    \/ Stop
    \/ ServerClosed
    \/ \E random \in 1 .. MaxRandom : GetSse(1, random)
    \/ \E writeThrows \in BOOLEAN : HeartbeatFires(1, writeThrows)
    \/ ConnectionCloses(1)
    \/ Tick
    \/ \E query \in QueryValues, body \in BridgeBodies, thrown \in BOOLEAN :
          PostSse(1, query, body, thrown)
    \/ \E outcome \in {"value", "empty", "throws"}, thrown \in BOOLEAN :
          AdapterReturns(1, outcome, thrown)
    \/ \E query \in QueryValues, body \in SampleBodies :
          NotFound(1, "POST", "/message", query, body)
    \/ Finish(1)

SpecBridge == Init /\ [][NextBridge]_vars

\* The sessions: several SSE connections open, beat and close, and the server is
\* stopped.  The life of a session does not depend on the random part of its id.
NextSessions ==
    \/ Start
    \/ Stop
    \/ ServerClosed
    \/ \E c \in Connections : GetSse(c, 1)
    \/ \E c \in Connections, writeThrows \in BOOLEAN : HeartbeatFires(c, writeThrows)
    \/ \E c \in Connections : ConnectionCloses(c)
    \/ Tick

SpecSessions == Init /\ [][NextSessions]_vars

\* The sessions with what the process itself schedules: the callback of server.close
\* runs once it can, and a timer that is active fires.  When a client disconnects
\* is the client's choice.
SpecShutdown ==
    /\ Init
    /\ [][NextSessions]_vars
    /\ WF_vars(ServerClosed)
    /\ \A c \in Connections : WF_vars(HeartbeatFires(c, FALSE))

\* Two clients post the sample requests, with any sessionId, while SSE connections
\* open and close.
NextPosts ==
    \/ Start
    \/ \E c \in Connections, random \in 1 .. MaxRandom : GetSse(c, random)
    \/ \E c \in Connections : ConnectionCloses(c)
    \/ \E s \in {1, 2}, query \in QueryValues, body \in SampleBodies :
          PostSse(s, query, body, FALSE)
    \/ \E s \in {1, 2}, outcome \in {"value", "empty", "throws"} :
          AdapterReturns(s, outcome, FALSE)
    \/ \E s \in {1, 2} : Finish(s)

SpecPosts == Init /\ [][NextPosts]_vars

\* The session ids: SSE connections open, at any tick and with any random draw, and
\* close.
NextIds ==
    \/ Start
    \/ \E c \in Connections, random \in 1 .. MaxRandom : GetSse(c, random)
    \/ \E c \in Connections : ConnectionCloses(c)
    \/ Tick

SpecIds == Init /\ [][NextIds]_vars

\* The requests of the handshake, among the sample requests.
HandshakeBodies ==
    SampleBodies \cup
    { [absent |-> FALSE, jsonrpc |-> "2.0", id |-> Zero, error |-> Undefined,
       method |-> "initialize", params |-> NoParams],
      [absent |-> FALSE, jsonrpc |-> "2.0", id |-> Undefined, error |-> Undefined,
       method |-> "notifications/initialized", params |-> NoParams] }

\* Two clients post in any order: the handshake before, after or never.
NextHandshake ==
    \/ Start
    \/ \E s \in {1, 2}, body \in HandshakeBodies : PostSse(s, Undefined, body, FALSE)
    \/ \E s \in {1, 2}, outcome \in {"value", "empty", "throws"} :
          AdapterReturns(s, outcome, FALSE)
    \/ \E s \in {1, 2} : Finish(s)

SpecHandshake == Init /\ [][NextHandshake]_vars

\* Two tools/call requests for different tools.
ConcurrentBodies ==
    { [absent |-> FALSE, jsonrpc |-> "2.0", id |-> "get-workitem-594", error |-> Undefined,
       method |-> "tools/call",
       params |-> [name |-> "get_work_item",
                   arguments |-> [NoArguments EXCEPT !["workItemId"] = WorkItem594]]],
      [absent |-> FALSE, jsonrpc |-> "2.0", id |-> Seven, error |-> Undefined,
       method |-> "tools/call",
       params |-> [name |-> "list_projects", arguments |-> NoArguments]] }

\* Several clients: a request arrives while the handlers of others await the adapter.
NextConcurrent ==
    \/ Start
    \/ \E s \in Slots, body \in ConcurrentBodies, thrown \in BOOLEAN :
          PostSse(s, Undefined, body, thrown)
    \/ \E s \in Slots, outcome \in {"value", "empty", "throws"}, thrown \in BOOLEAN :
          AdapterReturns(s, outcome, thrown)
    \/ \E s \in Slots : Finish(s)

SpecConcurrent == Init /\ [][NextConcurrent]_vars

\* Clients that go away while their tools/call is in flight, beside an SSE session.
NextDisconnect ==
    \/ Start
    \/ \E s \in Slots, body \in ConcurrentBodies : PostSse(s, Undefined, body, FALSE)
    \/ \E s \in Slots, outcome \in {"value", "empty", "throws"} :
          AdapterReturns(s, outcome, FALSE)
    \/ \E s \in Slots : ClientDisconnects(s)
    \/ \E s \in Slots : Finish(s)
    \/ GetSse(1, 1)
    \/ HeartbeatFires(1, FALSE)
    \/ ConnectionCloses(1)

SpecDisconnect == Init /\ [][NextDisconnect]_vars

\* Requests in flight while time passes; the adapter settles every call in the end.
NextAnswers ==
    \/ Start
    \/ \E s \in Slots, body \in ConcurrentBodies, thrown \in BOOLEAN :
          PostSse(s, Undefined, body, thrown)
    \/ \E s \in Slots, outcome \in {"value", "empty", "throws"}, thrown \in BOOLEAN :
          AdapterReturns(s, outcome, thrown)
    \/ \E s \in Slots : Finish(s)
    \/ Tick

SpecAnswers ==
    /\ Init
    /\ [][NextAnswers]_vars
    /\ \A s \in Slots :
          WF_vars(\E outcome \in {"value", "empty", "throws"} : AdapterReturns(s, outcome, FALSE))

\* ---------------------------------------------------------------- claims

\* Slot s holds a POST /sse, being handled or answered.
Posted(s) == requests[s].verb = "POST" /\ requests[s].path = "/sse"

\* Slot s holds a POST /sse whose handler sent the response it built.
Replied(s) == Posted(s) /\ requests[s].state = "answered" /\ ~requests[s].thrown

HasResult(response) == response.kind = "json" /\ "result" \in DOMAIN response.body

HasError(response, code) ==
    /\ response.kind = "json"
    /\ "error" \in DOMAIN response.body
    /\ "result" \notin DOMAIN response.body
    /\ response.body.error.code = code

\* C1: the response to a request that passes the envelope checks (jsonrpc and
\* method there and accepted) carries the id of the request unchanged: null for
\* null, 0 for 0, and no id when the request has none.
C1_IdEchoed ==
    \A s \in Slots :
        LET r == requests[s] IN
        (Replied(s) /\ ~InvalidFormat(r.body) /\ ~MethodMissing(r.body))
            => Get(r.response.body, "id") = r.body.id

C1_NullIdEchoed ==
    \E s \in Slots :
        LET r == requests[s] IN
        /\ Replied(s) /\ Branch(r.body) = "else"
        /\ r.body.id = Null /\ Get(r.response.body, "id") = Null

\* C2: a body with jsonrpc, without error and without method is answered -32600
\* with the id it carries, whatever that id is, and with null only when it has none.
C2_MissingMethodEchoesId ==
    \A s \in Slots :
        LET r == requests[s] IN
        (Replied(s) /\ Truthy(r.body.jsonrpc) /\ r.body.error = Undefined
                    /\ r.body.method = Undefined)
            => /\ HasError(r.response, -32600)
               /\ Get(r.response.body, "id") =
                     IF r.body.id = Undefined THEN Null ELSE r.body.id

\* C3: a request that passes the envelope checks with a method outside the table is
\* answered -32601, and no tool handler and no adapter call is made for it.
C3_UnknownMethod ==
    \A s \in Slots :
        LET r == requests[s] IN
        (Posted(s) /\ ReachesDispatch(r.body) /\ r.body.method \notin Methods)
            => /\ r.state = "answered"
               /\ r.invoked = "none"
               /\ r.calls = <<>>
               /\ ~r.thrown => HasError(r.response, -32601)

C3_UnknownMethodAnswered ==
    \E s \in Slots :
        /\ Replied(s)
        /\ requests[s].body.method = "resources/list"
        /\ HasError(requests[s].response, -32601)

\* C4: a tools/call of a known tool whose arguments lack a field the tool declares
\* required is answered -32603 with a text that names the field, and makes no
\* adapter call.
C4_MissingRequiredArgument ==
    \A s \in Slots :
        LET r == requests[s]
            tool == r.body.params.name
        IN \A f \in ArgFields :
            (/\ Posted(s) /\ Branch(r.body) = "tools/call" /\ tool \in ToolNames
             /\ f \in DeclaredRequired(tool) /\ r.body.params.arguments[f] = Undefined)
                => /\ r.state = "answered"
                   /\ r.calls = <<>>
                   /\ ~r.thrown =>
                        /\ HasError(r.response, -32603)
                        /\ r.response.body.error.data.text = "is required"
                        /\ f \in r.response.body.error.data.names

C4_TitleMissing ==
    \E s \in Slots :
        LET r == requests[s] IN
        /\ Replied(s) /\ Branch(r.body) = "tools/call"
        /\ r.body.params.name = "create_work_item"
        /\ Truthy(r.body.params.arguments["project"])
        /\ Truthy(r.body.params.arguments["type"])
        /\ r.body.params.arguments["title"] = Undefined
        /\ HasError(r.response, -32603)

\* C5: every response of the POST handler is an envelope with jsonrpc "2.0" and
\* exactly one of result and error.
C5_OneOfResultAndError ==
    \A s \in Slots :
        LET r == requests[s] IN
        (Posted(s) /\ r.state = "answered")
            => /\ r.response.kind = "json"
               /\ Get(r.response.body, "jsonrpc") = "2.0"
               /\ ("result" \in DOMAIN r.response.body) # ("error" \in DOMAIN r.response.body)

C5_OuterCatchEnvelope ==
    \E s \in Slots :
        /\ Posted(s) /\ requests[s].state = "answered" /\ requests[s].thrown
        /\ requests[s].response.status = 500
        /\ ClientSentError(requests[s].body)

\* The endpoint event of an SSE connection announced /message?sessionId=<query>.
Announced(query) ==
    \E c \in Connections :
        /\ connections[c].state # "none"
        /\ connections[c].stream[1] = EndpointEvent(query)
        /\ connections[c].sessionId = query

\* C6: a request POSTed to the path an endpoint event announced is answered with a
\* JSON-RPC envelope, the one the same request gets on POST /sse.
C6_AnnouncedPathDispatches ==
    \A s \in Slots :
        LET r == requests[s] IN
        (/\ r.state = "answered" /\ r.verb = "POST" /\ r.path = "/message"
         /\ Truthy(r.query) /\ Announced(r.query))
            => /\ r.response.kind = "json"
               /\ r.response.status # 404
               /\ Get(r.response.body, "jsonrpc") = "2.0"
               /\ ~Suspends(r.body, azureConnection)
                     => r.response = PostResponse(r.body, azureConnection)

\* C7: the status is 400 exactly for the -32600 rejections, 500 exactly when an
\* exception escaped to the outer catch, and 200 for every other outcome: results,
\* the acknowledgement, -32601 and -32603.
C7_Status ==
    \A s \in Slots :
        LET r == requests[s] IN
        (Posted(s) /\ r.state = "answered")
            => /\ r.response.status \in {200, 400, 500}
               /\ r.response.status = 500 <=> r.thrown
               /\ r.response.status = 400 <=> (~r.thrown /\ HasError(r.response, -32600))
               /\ r.response.status = 200 <=>
                     (~r.thrown /\ \/ HasResult(r.response)
                                   \/ HasError(r.response, -32601)
                                   \/ HasError(r.response, -32603))

C7_ToolErrorIs200 ==
    \E s \in Slots :
        /\ Replied(s)
        /\ requests[s].response.status = 200
        /\ HasError(requests[s].response, -32603)
        /\ requests[s].calls # <<>>

\* C8: a request whose jsonrpc is there but is not "2.0" is rejected with -32600
\* and reaches no method branch and no tool handler.
C8_VersionChecked ==
    \A s \in Slots :
        LET r == requests[s] IN
        (Posted(s) /\ ~r.body.absent /\ r.body.jsonrpc \notin {Undefined, "2.0"})
            => /\ r.state = "answered"
               /\ r.invoked = "none"
               /\ ~r.thrown => HasError(r.response, -32600)

\* C9: a body that is absent or has no jsonrpc is rejected with -32600 before
\* anything else: also when it has an error field or a valid method, and without
\* acknowledgement, dispatch or adapter call.
C9_NoJsonRpcRejectedFirst ==
    \A s \in Slots :
        LET r == requests[s] IN
        (Posted(s) /\ (r.body.absent \/ r.body.jsonrpc = Undefined))
            => /\ r.state = "answered"
               /\ r.invoked = "none"
               /\ r.calls = <<>>
               /\ ~r.thrown => /\ HasError(r.response, -32600)
                               /\ r.response.status = 400

C9_RejectedDespiteErrorAndMethod ==
    \E s \in Slots :
        LET r == requests[s] IN
        /\ Replied(s)
        /\ r.body.jsonrpc = Undefined
        /\ r.body.error = ErrorObject
        /\ r.body.method = "tools/call"
        /\ r.body.params.name = "list_projects"
        /\ HasError(r.response, -32600)

Acknowledged(r) ==
    /\ r.state = "answered"
    /\ r.invoked = "none"
    /\ r.calls = <<>>
    /\ ~r.thrown => /\ HasResult(r.response)
                    /\ r.response.body.result = [acknowledged |-> TRUE]
                    /\ Get(r.response.body, "id") = r.body.id

\* C10 as stated: a body with jsonrpc that carries an error field, whatever the
\* field holds, is acknowledged with the peer's id and never dispatched.
C10_AnyErrorFieldAcknowledged ==
    \A s \in Slots :
        LET r == requests[s] IN
        (Posted(s) /\ Truthy(r.body.jsonrpc) /\ r.body.error # Undefined)
            => Acknowledged(r)

\* C10 as amended: a body with jsonrpc whose error field holds a value JavaScript
\* takes for true (an error object) is acknowledged with {acknowledged: true} and
\* the peer's id, with or without a method, and is never dispatched: no method
\* branch, no tool handler, no adapter call, also when its method is tools/call.
C10_ErrorAcknowledged ==
    \A s \in Slots :
        LET r == requests[s] IN
        (Posted(s) /\ Truthy(r.body.jsonrpc) /\ Truthy(r.body.error))
            => Acknowledged(r)

C10_ToolsCallWithErrorAcknowledged ==
    \E s \in Slots :
        LET r == requests[s] IN
        /\ Replied(s)
        /\ r.body.error = ErrorObject
        /\ r.body.method = "tools/call"
        /\ CallsHandler(r.body)
        /\ r.body.id = Zero
        /\ HasResult(r.response)
        /\ Get(r.response.body, "id") = Zero

\* The result of a tools/call: one content block of type text.
OneTextBlock(response) ==
    /\ HasResult(response)
    /\ DOMAIN response.body.result = {"content"}
    /\ Len(response.body.result.content) = 1
    /\ DOMAIN response.body.result.content[1] = {"type", "text"}
    /\ response.body.result.content[1].type = "text"

\* The error of a tools/call: code -32603 with the message of the failure as data.
ToolError(response) ==
    /\ HasError(response, -32603)
    /\ "data" \in DOMAIN response.body.error

\* An adapter call of the request in slot s rejected.
AdapterFailed(s) == \E i \in DOMAIN requests[s].outcomes : requests[s].outcomes[i] = "throws"

\* C11: the response a tools/call handler sends is either a result whose content is
\* exactly one text block, or an error -32603 whose data is the message of the
\* failure; when an adapter call of the request rejected, it is the error, whose
\* data carries the adapter's message, and the handler made no further adapter call.
C11_ResultOrError ==
    \A s \in Slots :
        LET r == requests[s] IN
        (Replied(s) /\ Branch(r.body) = "tools/call")
            => /\ OneTextBlock(r.response) \/ ToolError(r.response)
               /\ ~(OneTextBlock(r.response) /\ ToolError(r.response))
               /\ AdapterFailed(s)
                    => /\ ToolError(r.response)
                       /\ r.response.body.error.data.text = "Failed to"
                       /\ r.response.body.error.data.cause = "adapter error"
                       /\ r.outcomes[Len(r.outcomes)] = "throws"

C11_SecondAdapterCallFailed ==
    \E s \in Slots :
        LET r == requests[s] IN
        /\ Replied(s) /\ Branch(r.body) = "tools/call"
        /\ r.invoked = "query_work_items"
        /\ r.outcomes = <<"value", "value", "throws">>
        /\ ToolError(r.response)

\* Slot s holds a tools/call for search_repository_code with a searchText the
\* switch accepts.
SearchCall(s) ==
    /\ Posted(s)
    /\ Branch(requests[s].body) = "tools/call"
    /\ toolName(requests[s].body) = "search_repository_code"
    /\ Truthy(args(requests[s].body)["searchText"])

PlaceholderResult(r) ==
    /\ OneTextBlock(r.response)
    /\ r.response.body.result.content[1].text = ResultText("search_repository_code", "placeholder")

\* C12 as stated: a tools/call for search_repository_code that supplies searchText
\* is answered with the placeholder text as a result in every state of the server,
\* also without a backend connection, and makes no adapter call.
C12_SearchNeverFails ==
    \A s \in Slots :
        LET r == requests[s] IN
        SearchCall(s)
            => /\ r.state = "answered"
               /\ r.calls = <<>>
               /\ ~r.thrown => PlaceholderResult(r)

\* C12 as amended: such a call never makes an adapter call; it is answered with the
\* placeholder text as a result when the backend connection was built at startup,
\* and with the error -32603 'Azure DevOps connection not initialized' when not.
C12_SearchPlaceholderWhenConnected ==
    \A s \in Slots :
        LET r == requests[s] IN
        SearchCall(s)
            => /\ r.state = "answered"
               /\ r.invoked = "search_repository_code"
               /\ r.calls = <<>>
               /\ (~r.thrown /\ azureConnection # Null) => PlaceholderResult(r)
               /\ (~r.thrown /\ azureConnection = Null)
                    => /\ ToolError(r.response)
                       /\ r.response.body.error.data = NotInitializedMessage

C12_SearchWithoutConnection ==
    \E s \in Slots :
        /\ SearchCall(s) /\ Replied(s)
        /\ azureConnection = Null
        /\ requests[s].response.body.error.data = NotInitializedMessage

\* C13: a tools/call whose params.name is missing or is no case of the switch is
\* answered with HTTP 200 and the error -32603 whose data names the tool that is
\* not supported, without a tool handler or an adapter call; the errors of a
\* missing argument and of a failed adapter call carry the same code -32603.
C13_UnknownTool ==
    \A s \in Slots :
        LET r == requests[s] IN
        (Posted(s) /\ Branch(r.body) = "tools/call")
            => /\ toolName(r.body) \notin ToolNames
                    => /\ r.state = "answered"
                       /\ r.invoked = "none"
                       /\ r.calls = <<>>
                       /\ ~r.thrown
                            => /\ r.response.status = 200
                               /\ ToolError(r.response)
                               /\ r.response.body.error.data = NotSupportedMessage(toolName(r.body))
               /\ (Replied(s) /\ "error" \in DOMAIN r.response.body)
                    => /\ r.response.status = 200
                       /\ ToolError(r.response)
                       /\ r.response.body.error.data.text
                            \in {"Tool not supported", "is required", "Failed to",
                                 "Azure DevOps connection not initialized"}

C13_NameMissing ==
    \E s \in Slots :
        LET r == requests[s] IN
        /\ Replied(s) /\ Branch(r.body) = "tools/call"
        /\ r.body.params = NoParams
        /\ ToolError(r.response)
        /\ r.response.body.error.data = NotSupportedMessage(Undefined)

\* The positions of the events of one kind on a stream.
EventsAt(stream, event) == { i \in DOMAIN stream : stream[i].event = event }

\* C14: the stream of every SSE connection carries exactly one endpoint event, its
\* first, then exactly one hello message event, its second, and heartbeats only
\* after them; the sessionId of the endpoint path is the sessionId of the hello
\* params.
C14_EndpointThenHello ==
    \A c \in Connections :
        LET stream == connections[c].stream IN
        connections[c].state # "none"
            => /\ EventsAt(stream, "endpoint") = {1}
               /\ EventsAt(stream, "message") = {2}
               /\ EventsAt(stream, "comment") = DOMAIN stream \ {1, 2}
               /\ stream[2].data.method = "hello"
               /\ stream[1].data = EndpointPath(stream[2].data.params.sessionId)
               /\ stream[2].data.params.sessionId = connections[c].sessionId

C14_HeartbeatAfterHello ==
    \E c \in Connections :
        /\ connections[c].state = "open"
        /\ Len(connections[c].stream) = 3
        /\ connections[c].stream[1].event = "endpoint"
        /\ connections[c].stream[3].event = "comment"

\* C15: a session goes from open, through any number of heartbeats, to closed, and
\* once its close event has fired its timer is not active, nothing more is written
\* on its stream, and it is never open again.
C15_ClosedIsFinal ==
    [][\A c \in Connections :
          /\ connections[c].state = "none" => connections'[c].state \in {"none", "open"}
          /\ connections[c].state = "open"
                => /\ connections'[c].state \in {"open", "closed"}
                   /\ connections'[c].stream \in
                         {connections[c].stream, Append(connections[c].stream, HeartbeatLine)}
          /\ connections[c].state = "closed"
                => /\ ~connections[c].heartbeat
                   /\ connections'[c] = connections[c]]_vars

C15_ClosedAfterHeartbeat ==
    \E c \in Connections :
        /\ connections[c].state = "closed"
        /\ ~connections[c].heartbeat
        /\ Heartbeats(connections[c].stream) = 1
        /\ now > 0

\* C16: once stop() has been invoked no session is left open: every session that
\* was open is closed and its heartbeat timer is cancelled.
C16_StopClosesSessions ==
    server \in {"closing", "closed"}
        => \A c \in Connections :
              /\ connections[c].state # "open"
              /\ ~connections[c].heartbeat

\* C17: the close listener run on a session it has closed already, or on one whose
\* timer a failed heartbeat write has cancelled already, does nothing more: the
\* session is closed with its timer cancelled and its stream as it was, exactly as
\* after the first close.
C17_CloseIdempotent ==
    \A c \in Connections :
        LET connection == connections[c]
            once == CloseHandler(connection)
        IN  connection.state # "none"
               => /\ once.state = "closed" /\ ~once.heartbeat
                  /\ once.stream = connection.stream
                  /\ once.sessionId = connection.sessionId
                  /\ CloseHandler(once) = once
                  /\ connection.state = "closed" => once = connection

C17_ClosedAfterWriteFailure ==
    \E c \in Connections :
        /\ connections[c].state = "closed"
        /\ connections[c].failed
        /\ ~connections[c].heartbeat

\* The response in slot s answers the tools/call in slot s: its id, and the tool
\* its text or its failure is about.
OwnResponse(s) ==
    LET r == requests[s] IN
    /\ Get(r.response.body, "id") = r.body.id
    /\ OneTextBlock(r.response)
          => r.response.body.result.content[1].text.tool = toolName(r.body)
    /\ (ToolError(r.response) /\ r.response.body.error.data.text = "Failed to")
          => r.response.body.error.data.tool = toolName(r.body)

\* C18: of two tools/call requests in flight, each handler can go on as soon as its
\* own adapter call settles, whatever the other is waiting for; the step that
\* settles one leaves the other as it was; and each response carries the id and
\* the result of its own request.
C18_IndependentCalls ==
    /\ [](\A s \in Slots :
            /\ requests[s].state = "awaiting"
                  => ENABLED AdapterReturns(s, "value", FALSE)
            /\ (Replied(s) /\ Branch(requests[s].body) = "tools/call") => OwnResponse(s))
    /\ [][\A s \in Slots :
            (requests[s].state = "awaiting" /\ requests'[s] # requests[s])
                => \A t \in Slots \ {s} : requests'[t] = requests[t]]_vars

C18_AnsweredWhileOtherAwaits ==
    \E s \in Slots, t \in Slots :
        /\ requests[s].state = "awaiting"
        /\ toolName(requests[s].body) = "get_work_item"
        /\ Replied(t)
        /\ toolName(requests[t].body) = "list_projects"
        /\ OneTextBlock(requests[t].response)
        /\ OwnResponse(t)

\* C19: a tools/list is answered with the same eight descriptors whatever came
\* before it (connections opened and closed, tool calls that succeeded or failed,
\* with or without a backend connection), without a tool handler or an adapter
\* call, and the step that handles it changes nothing but its own exchange.
C19_ToolsListFixed ==
    /\ [](\A s \in Slots :
            LET r == requests[s] IN
            (Posted(s) /\ Branch(r.body) = "tools/list")
                => /\ r.state = "answered"
                   /\ r.invoked = "none"
                   /\ r.calls = <<>>
                   /\ ~r.thrown
                        => /\ r.response.status = 200
                           /\ HasResult(r.response)
                           /\ r.response.body.result = [tools |-> ToolDescriptors]
                           /\ DOMAIN r.response.body.result.tools = ToolNames)
    /\ [][\A s \in Slots :
            (/\ requests[s].state = "idle"
             /\ requests'[s].verb = "POST" /\ requests'[s].path = "/sse"
             /\ Branch(requests'[s].body) = "tools/list")
                => /\ UNCHANGED <<azureConnection, connections, now, server>>
                   /\ \A t \in Slots \ {s} : requests'[t] = requests[t]]_vars

C19_ListedAfterClose ==
    \E s \in Slots, c \in Connections :
        /\ Replied(s)
        /\ Branch(requests[s].body) = "tools/list"
        /\ requests[s].response.body.result = [tools |-> ToolDescriptors]
        /\ connections[c].state = "closed"
        /\ azureConnection = Null

\* Slot s holds a tools/call for a known tool whose arguments have every field the
\* tool's descriptor declares required.
RequiredFieldsPresent(s) ==
    /\ Posted(s)
    /\ requests[s].body.jsonrpc = "2.0"
    /\ Branch(requests[s].body) = "tools/call"
    /\ toolName(requests[s].body) \in ToolNames
    /\ \A f \in DeclaredRequired(toolName(requests[s].body)) :
          args(requests[s].body)[f] # Undefined

\* C20: a tools/call whose arguments contain every required field of the tool,
\* whatever their values (0 and "" included), is not rejected as missing an
\* argument: the tool's handler is called.
C20_PresentFieldsAccepted ==
    \A s \in Slots :
        LET r == requests[s] IN
        RequiredFieldsPresent(s)
            => /\ r.invoked = toolName(r.body)
               /\ (r.state = "answered" /\ ~r.thrown /\ ToolError(r.response))
                    => r.response.body.error.data.text # "is required"

\* C21: the heartbeat write that fails cancels the timer of its session and changes
\* nothing else: the session is not closed, no other session, no request and not
\* the server is touched; and from then on no heartbeat is written on that session
\* and its timer stays cancelled.
C21_HeartbeatFailureTerminal ==
    [][\A c \in Connections :
          /\ (~connections[c].failed /\ connections'[c].failed)
                => /\ connections'[c] = [connections[c] EXCEPT !.heartbeat = FALSE,
                                                              !.failed = TRUE]
                   /\ \A d \in Connections \ {c} : connections'[d] = connections[d]
                   /\ UNCHANGED <<azureConnection, requests, now, server, handshake>>
          /\ connections[c].failed
                => /\ ~connections[c].heartbeat
                   /\ connections'[c].failed /\ ~connections'[c].heartbeat
                   /\ connections'[c].stream = connections[c].stream]_vars

C21_FailedBesideOpenSession ==
    \E c \in Connections, d \in Connections :
        /\ connections[c].state = "open" /\ connections[c].failed
        /\ Heartbeats(connections[c].stream) = 0
        /\ connections[d].state = "open" /\ connections[d].heartbeat
        /\ Heartbeats(connections[d].stream) = 1

\* The sessions that are open.
OpenSessions == { c \in Connections : connections[c].state = "open" }

\* C22: two POSTs with the same body whose adapter calls settled the same way get
\* the same response, whatever sessionId came with each and whatever sessions were
\* open or closed when each was handled; and no step of a POST changes a session.
C22_ResponseIgnoresSessions ==
    /\ [](\A s \in Slots, t \in Slots :
            (/\ Replied(s) /\ Replied(t)
             /\ requests[s].body = requests[t].body
             /\ requests[s].outcomes = requests[t].outcomes)
                => requests[s].response = requests[t].response)
    /\ [][(requests' # requests) => (connections' = connections)]_vars

C22_SameResponseOtherSession ==
    \E s \in Slots, t \in Slots, c \in Connections :
        /\ Replied(s) /\ Replied(t)
        /\ requests[s].body = requests[t].body
        /\ Branch(requests[s].body) = "tools/call"
        /\ OneTextBlock(requests[s].response)
        /\ requests[s].response = requests[t].response
        /\ requests[s].query = Undefined
        /\ connections[c].state = "closed"
        /\ requests[t].query = connections[c].sessionId
        /\ OpenSessions # {}

\* C23: the step that handles initialize answers with a result and changes nothing
\* of the server but its own exchange; and a request that arrived before any
\* initialize or notifications/initialized is handled as the same request that
\* arrived after one: the same handler is called, the same adapter calls are made,
\* and with the same adapter outcomes the same response is sent.
C23_NoInitializationGate ==
    /\ [](\A s \in Slots, t \in Slots :
            (/\ Posted(s) /\ Posted(t)
             /\ ~requests[s].handshake /\ requests[t].handshake
             /\ requests[s].body = requests[t].body)
                => /\ requests[s].invoked = requests[t].invoked
                   /\ requests[s].outcomes = requests[t].outcomes
                        => /\ requests[s].calls = requests[t].calls
                           /\ requests[s].state = requests[t].state
                           /\ requests[s].response = requests[t].response)
    /\ [][\A s \in Slots :
            (/\ requests[s].state = "idle"
             /\ requests'[s].verb = "POST" /\ requests'[s].path = "/sse"
             /\ Branch(requests'[s].body) = "initialize")
                => /\ HasResult(requests'[s].response)
                   /\ UNCHANGED <<azureConnection, connections, now, server>>
                   /\ \A t \in Slots \ {s} : requests'[t] = requests[t]]_vars

C23_CallBeforeAndAfterInitialize ==
    \E s \in Slots, t \in Slots :
        /\ Replied(s) /\ Replied(t)
        /\ ~requests[s].handshake /\ requests[t].handshake
        /\ requests[s].body = requests[t].body
        /\ Branch(requests[s].body) = "tools/call"
        /\ OneTextBlock(requests[s].response)
        /\ requests[s].response = requests[t].response

\* C24: a notifications/initialized, ping or hello request that passes the envelope
\* checks is answered with a result and no error, whatever its params and its id,
\* and no tool handler and no adapter call is made for it.
C24_TrivialMethodsSucceed ==
    \A s \in Slots :
        LET r == requests[s] IN
        (/\ Posted(s) /\ ReachesDispatch(r.body)
         /\ r.body.method \in {"notifications/initialized", "ping", "hello"})
            => /\ r.state = "answered"
               /\ r.invoked = "none"
               /\ r.calls = <<>>
               /\ ~r.thrown
                    => /\ r.response.status = 200
                       /\ HasResult(r.response)
                       /\ "error" \notin DOMAIN r.response.body
                       /\ Get(r.response.body, "id") = r.body.id

C24_PingWithToolParams ==
    \E s \in Slots :
        LET r == requests[s] IN
        /\ Replied(s)
        /\ r.body.method = "ping"
        /\ r.body.id = Null
        /\ toolName(r.body) = "get_work_item"
        /\ args(r.body)["workItemId"] = WorkItem594
        /\ HasResult(r.response)

\* The sessions that have been opened, open or closed by now.
Opened == { c \in Connections : connections[c].state # "none" }

\* The tick at which a session was opened, as its hello message tells it.
OpenedAt(c) == connections[c].stream[2].data.id

\* C25 as stated: no two sessions opened in the life of the process have the same
\* sessionId, also when they were opened within the same clock tick.
C25_UniqueSessionIds ==
    \A c \in Opened, d \in Opened :
        c # d => connections[c].sessionId # connections[d].sessionId

\* C25 as amended: two sessions opened at different clock ticks never have the same
\* sessionId.
C25_UniqueAcrossTicks ==
    \A c \in Opened, d \in Opened :
        OpenedAt(c) # OpenedAt(d) => connections[c].sessionId # connections[d].sessionId

C25_SameRandomOtherTick ==
    \E c \in Opened, d \in Opened :
        /\ connections[c].sessionId = SessionId(1, 0)
        /\ connections[d].sessionId = SessionId(1, 1)
        /\ OpenedAt(c) # OpenedAt(d)
        /\ connections[c].state = "closed"

\* The response of the request in slot s reached its client.
Delivered(s) == requests[s].state = "answered" /\ ~requests[s].disconnected

\* C26: when the client of a tools/call in flight goes away, the handler can still
\* resume after each of its adapter calls, makes the calls it would have made, and
\* builds its response, which reaches nobody; no exception escapes to the outer
\* catch; and the step in which the client goes away changes nothing but that
\* request: not the other requests, not the sessions, not the server.
C26_DisconnectDoesNotCancel ==
    /\ [](\A s \in Slots :
            LET r == requests[s] IN
            r.disconnected
                => /\ r.state = "awaiting" => ENABLED AdapterReturns(s, "value", FALSE)
                   /\ r.state = "answered"
                        => /\ ~r.thrown /\ ~Delivered(s)
                           /\ OneTextBlock(r.response) \/ ToolError(r.response)
                           /\ r.outcomes[Len(r.outcomes)] = "value"
                                => r.calls = AdapterCalls(toolName(r.body)))
    /\ [][\A s \in Slots :
            (~requests[s].disconnected /\ requests'[s].disconnected)
                => /\ requests'[s] = [requests[s] EXCEPT !.disconnected = TRUE]
                   /\ \A t \in Slots \ {s} : requests'[t] = requests[t]
                   /\ UNCHANGED <<azureConnection, connections, now, server>>]_vars

C26_CompletedAfterDisconnect ==
    \E s \in Slots, t \in Slots :
        /\ requests[s].disconnected
        /\ requests[s].state = "answered"
        /\ requests[s].outcomes = <<"value", "value">>
        /\ OneTextBlock(requests[s].response)
        /\ Delivered(t) /\ Replied(t)
        /\ connections[1].state = "open" /\ Heartbeats(connections[1].stream) = 1

\* C27: a tools/call makes each adapter call of its tool's handler at most once, in
\* order; the call that fails is the last one, the request is answered at once with
\* the error (or the 500 of the outer catch), and nothing more is called for it
\* once it is answered.
C27_SingleAttempt ==
    /\ [](\A s \in Slots :
            LET r == requests[s]
                sequence == AdapterCalls(r.invoked)
            IN  (Posted(s) /\ Branch(r.body) = "tools/call")
                   => /\ r.invoked \in {"none", toolName(r.body)}
                      /\ Len(r.calls) <= Len(sequence)
                      /\ \A i \in DOMAIN r.calls : r.calls[i] = sequence[i]
                      /\ Len(r.outcomes) = IF r.state = "awaiting" THEN Len(r.calls) - 1
                                           ELSE Len(r.calls)
                      /\ \A i \in DOMAIN r.outcomes :
                            r.outcomes[i] = "throws"
                               => /\ i = Len(r.calls)
                                  /\ r.state = "answered"
                                  /\ ~r.thrown => ToolError(r.response))
    /\ [][\A s \in Slots :
            (requests[s].state = "answered" /\ requests'[s] # requests[s])
                => requests'[s] = Idle]_vars

C27_FailedOnceAtFirstCall ==
    \E s \in Slots :
        LET r == requests[s] IN
        /\ Replied(s) /\ Branch(r.body) = "tools/call"
        /\ r.invoked = "create_work_item"
        /\ r.calls = <<"getWorkItemTrackingApi">>
        /\ r.outcomes = <<"throws">>
        /\ ToolError(r.response)

\* C28: without a backend connection, a tools/call for a known tool whose arguments
\* have every required field is answered -32603 with 'Azure DevOps connection not
\* initialized' as data and makes no adapter call, and one that lacks a required
\* field is answered with the '... is required' error instead.
C28_NotInitializedUnlessMissing ==
    \A s \in Slots :
        LET r == requests[s] IN
        (/\ Posted(s) /\ azureConnection = Null
         /\ r.body.jsonrpc = "2.0"
         /\ Branch(r.body) = "tools/call"
         /\ toolName(r.body) \in ToolNames)
            => /\ r.state = "answered"
               /\ r.calls = <<>>
               /\ ~r.thrown
                    => /\ ToolError(r.response)
                       /\ r.response.body.error.data =
                             IF RequiredFieldsPresent(s) THEN NotInitializedMessage
                             ELSE RequiredMessage(toolName(r.body))

\* C29: a POST whose handler has ended has one response, which is never replaced
\* by another; a POST whose handler awaits the adapter has none, and gets one only
\* in the step in which its adapter call settles, however much time passes; and
\* when the adapter settles every call, every such POST is answered.
C29_ExactlyOneResponse ==
    /\ [](\A s \in Slots :
            Posted(s)
               => /\ requests[s].state = "answered"
                     => /\ requests[s].response.kind = "json"
                        /\ requests[s].response.status \in {200, 400, 500}
                  /\ requests[s].state = "awaiting" => requests[s].response = NoResponse)
    /\ [][\A s \in Slots :
            /\ (requests[s].state = "answered" /\ requests'[s] # requests[s])
                  => requests'[s] = Idle
            /\ (requests[s].state = "awaiting" /\ requests'[s].state # "awaiting")
                  => /\ requests'[s].state = "answered"
                     /\ Len(requests'[s].outcomes) = Len(requests[s].outcomes) + 1
            /\ (requests[s].state = "awaiting" /\ now' # now)
                  => requests'[s] = requests[s]]_vars
    /\ \A s \in Slots : (requests[s].state = "awaiting") ~> (requests[s].state = "answered")

C29_AnsweredAfterWaiting ==
    \E s \in Slots, t \in Slots :
        /\ Replied(s)
        /\ Len(requests[s].outcomes) = 2
        /\ requests[s].response.status = 200
        /\ requests[t].state = "awaiting"
        /\ requests[t].response = NoResponse
        /\ now = MaxClock

\* C30: once stop() has been called its promise resolves in the end, also when SSE
\* sessions were open at the time of the call.
C30_StopCompletes == (server = "closing") ~> (server = "closed")

\* The tool names of a tools/list result, and the required fields it declares.
ListedNames(result) == DOMAIN result.tools

\* C31: the names in the tools/list result are the names in the answer of GET /,
\* and a tools/call is answered 'Tool ... not supported' exactly for a name outside
\* them; and a tools/call for a listed tool is answered '... is required' exactly
\* when a field its descriptor declares required is not given, the message naming
\* the declared fields.
C31_RegistryConsistent ==
    \A s \in Slots :
        LET r == requests[s]
            listed == ListedNames(ToolsListResult)
        IN  /\ (Replied(s) /\ Branch(r.body) = "tools/list")
                  => r.response.body.result = ToolsListResult
            /\ (r.state = "answered" /\ r.verb = "GET" /\ r.path = "/")
                  => r.response.body.tools = listed
            /\ (Replied(s) /\ Branch(r.body) = "tools/call")
                  => /\ (/\ ToolError(r.response)
                         /\ r.response.body.error.data.text = "Tool not supported")
                        <=> toolName(r.body) \notin listed
                     /\ toolName(r.body) \in listed
                          => /\ (/\ ToolError(r.response)
                                 /\ r.response.body.error.data.text = "is required")
                                <=> \E f \in ToolsListResult.tools[toolName(r.body)] :
                                        ~Truthy(args(r.body)[f])
                             /\ r.invoked = "none"
                                <=> \E f \in ToolsListResult.tools[toolName(r.body)] :
                                        ~Truthy(args(r.body)[f])
                             /\ (/\ ToolError(r.response)
                                 /\ r.response.body.error.data.text = "is required")
                                  => r.response.body.error.data.names =
                                        ToolsListResult.tools[toolName(r.body)]

C31_ListedStubAccepted ==
    \E s \in Slots :
        LET r == requests[s] IN
        /\ Replied(s) /\ Branch(r.body) = "tools/call"
        /\ toolName(r.body) = "search_repository_code"
        /\ toolName(r.body) \in ListedNames(ToolsListResult)
        /\ ToolsListResult.tools[toolName(r.body)] = {"searchText"}
        /\ r.invoked = "search_repository_code"
        /\ OneTextBlock(r.response)

\* C32: the step in which one session closes, or in which its heartbeat write
\* fails, leaves every other session as it was (timer, stream, sessionId), and an
\* open session whose timer is active can always get its next heartbeat, whatever
\* has happened to the others.
C32_SessionsIsolated ==
    /\ [](\A d \in Connections :
            (/\ connections[d].state = "open" /\ connections[d].heartbeat
             /\ Heartbeats(connections[d].stream) < MaxHeartbeats)
                => ENABLED HeartbeatFires(d, FALSE))
    /\ [][\A c \in Connections :
            (\/ connections[c].state = "open" /\ connections'[c].state = "closed"
             \/ ~connections[c].failed /\ connections'[c].failed)
                => /\ connections'[c].sessionId = connections[c].sessionId
                   /\ connections'[c].stream = connections[c].stream
                   /\ ~connections'[c].heartbeat
                   /\ \A d \in Connections \ {c} : connections'[d] = connections[d]]_vars

C32_BeatsBesideClosedTwin ==
    \E c \in Connections, d \in Connections :
        /\ connections[c].state = "closed"
        /\ Heartbeats(connections[c].stream) = 0
        /\ connections[d].state = "open" /\ connections[d].heartbeat
        /\ Heartbeats(connections[d].stream) = 1
        /\ connections[d].sessionId = connections[c].sessionId

====
